---- MODULE Spec2Model ----
(***************************************************************************)
(* Model of src/api/handler.rs: the request handler of RegisClaudeMaster.  *)
(* One request is followed from its arrival through the transport gate     *)
(* (OPTIONS / API key / JSON parse), the grounding search, the             *)
(* classification of the prompt and the backend invocation(s) to the       *)
(* HTTP response.  Strings whose content the code inspects are sequences   *)
(* of one-character strings; Option<T> is a sequence of length 0 (None)    *)
(* or 1 (Some).                                                            *)
(***************************************************************************)
EXTENDS Integers, Sequences, FiniteSets, TLC

VARIABLES pc, env, req, input, searchReply, groundingResult, sources,
          context, ollamaReply, ollamaResult, geminiReply, geminiResult,
          calls, inflight, output, httpStatus, httpBody

vars == <<pc, env, req, input, searchReply, groundingResult, sources,
          context, ollamaReply, ollamaResult, geminiReply, geminiResult,
          calls, inflight, output, httpStatus, httpBody>>

----------------------------------------------------------------------------
(* Bounds of the model *)

\* longest prompt text enumerated
MaxPromptLen == 3
\* longest item list a search body carries
MaxItems == 6
\* item lists up to this length are enumerated with every mix of items
MaxMixed == 2
\* longest prompt text enumerated for the classification
MaxClassifyLen == 4

----------------------------------------------------------------------------
(* Option and Result values *)

None == <<>>
Some(v) == <<v>>
IsSome(o) == Len(o) = 1
Unwrap(o) == o[1]
UnwrapOr(o, d) == IF IsSome(o) THEN o[1] ELSE d

Ok(v) == [ok |-> TRUE, val |-> v, err |-> ""]
Err(e) == [ok |-> FALSE, val |-> <<>>, err |-> e]
\* Result::unwrap_or_default for String and Vec: the empty sequence
UnwrapOrDefault(r) == IF r.ok THEN r.val ELSE <<>>

----------------------------------------------------------------------------
(* Strings *)

EmptyStr == <<>>

RECURSIVE Join(_, _)
\* [String]::join(sep)
Join(ss, sep) ==
  IF ss = <<>> THEN <<>>
  ELSE IF Len(ss) = 1 THEN ss[1]
  ELSE ss[1] \o sep \o Join(Tail(ss), sep)

\* char::to_lowercase on the ASCII letters
LowerOf ==
  [c \in {"A","B","C","D","E","F","G","H","I","J","K","L","M","N","O","P",
          "Q","R","S","T","U","V","W","X","Y","Z"} |->
     CASE c = "A" -> "a" [] c = "B" -> "b" [] c = "C" -> "c" [] c = "D" -> "d"
       [] c = "E" -> "e" [] c = "F" -> "f" [] c = "G" -> "g" [] c = "H" -> "h"
       [] c = "I" -> "i" [] c = "J" -> "j" [] c = "K" -> "k" [] c = "L" -> "l"
       [] c = "M" -> "m" [] c = "N" -> "n" [] c = "O" -> "o" [] c = "P" -> "p"
       [] c = "Q" -> "q" [] c = "R" -> "r" [] c = "S" -> "s" [] c = "T" -> "t"
       [] c = "U" -> "u" [] c = "V" -> "v" [] c = "W" -> "w" [] c = "X" -> "x"
       [] c = "Y" -> "y" [] c = "Z" -> "z"]

\* str::to_lowercase
ToLowercase(s) ==
  [i \in 1..Len(s) |-> IF s[i] \in DOMAIN LowerOf THEN LowerOf[s[i]] ELSE s[i]]

\* str::starts_with(pattern)
StartsWith(s, kw) == Len(kw) <= Len(s) /\ SubSeq(s, 1, Len(kw)) = kw

\* str::contains(pattern)
Contains(s, kw) ==
  \E i \in 1..(Len(s) - Len(kw) + 1) : SubSeq(s, i, i + Len(kw) - 1) = kw

\* all strings over alphabet A of length at most n
StringsUpTo(A, n) == UNION {[1..k -> A] : k \in 0..n}

----------------------------------------------------------------------------
(* is_code_prompt *)

code_keywords ==
  << <<"c","o","d","e">>,
     <<"f","u","n","c","t","i","o","n">>,
     <<"i","m","p","l","e","m","e","n","t">>,
     <<"s","c","r","i","p","t">>,
     <<"p","r","o","g","r","a","m">>,
     <<"d","e","b","u","g">>,
     <<"f","i","x">>,
     <<"r","e","f","a","c","t","o","r">>,
     <<"r","u","s","t">>,
     <<"p","y","t","h","o","n">>,
     <<"j","a","v","a","s","c","r","i","p","t">>,
     <<"t","y","p","e","s","c","r","i","p","t">>,
     <<"s","q","l">>,
     <<"a","p","i">>,
     <<"e","n","d","p","o","i","n","t">>,
     <<"a","l","g","o","r","i","t","h","m">> >>

is_code_prompt(prompt) ==
  LET prompt_lower == ToLowercase(prompt)
  IN  \E k \in 1..Len(code_keywords) : Contains(prompt_lower, code_keywords[k])

----------------------------------------------------------------------------
(* Inputs: the request, the environment, the replies of the remote services *)

PromptAlphabet == {"a", "p", "i", "P"}
Prompts == StringsUpTo(PromptAlphabet, MaxPromptLen)

Methods == {"OPTIONS", "POST"}
\* header values and keys are byte strings; <C3><A9> is a two-byte UTF-8 letter
NonAsciiBytes == {"<C3>", "<A9>"}
\* HeaderValue::to_str: the value as &str if all its bytes are visible ASCII
ToStr(v) ==
  IF \A i \in 1..Len(v) : v[i] \notin NonAsciiBytes THEN Some(v) ELSE None
\* the values of the x-api-key headers of a request, in order
ApiKeyHeaders == {<<>>, << <<"k">> >>, << <<"j">> >>, << <<"<C3>", "<A9>">> >>,
                  << <<"j">>, <<"k">> >>, << <<"k">>, <<"j">> >>}
\* HeaderMap::get: the first value of the header, if any
HeaderGet(values) == IF values = <<>> THEN None ELSE Some(values[1])
\* a body either deserializes to an InputPayload or does not
Bodies == {[valid |-> FALSE, prompt |-> EmptyStr]}
            \cup {[valid |-> TRUE, prompt |-> p] : p \in Prompts}
Requests == [method : Methods, x_api_key : ApiKeyHeaders, body : Bodies]
\* the request after req.into_body() has moved it
Consumed == [method |-> "", x_api_key |-> <<>>,
             body |-> [valid |-> FALSE, prompt |-> EmptyStr]]

Envs == [GOOGLE_API_KEY : {None, Some("gk")},
         GOOGLE_SEARCH_CX : {None, Some("cx")},
         CLOUDFLARE_TUNNEL_URL : {None, Some("tunnel")},
         INTERNAL_AUTH_KEY : {None, Some(EmptyStr), Some(<<"k">>),
                              Some(<<"<C3>", "<A9>">>)}]

\* env::var(name).context(msg)
EnvVar(e, name, msg) == IF IsSome(e[name]) THEN Ok(Unwrap(e[name])) ELSE Err(msg)

Statuses == {200, 500}
\* StatusCode::is_success
IsSuccess(status) == status >= 200 /\ status < 300

\* GoogleSearchItem values the provider may send
Items == {[title |-> EmptyStr, link |-> "u", snippet |-> None],
          [title |-> <<"t">>, link |-> "u", snippet |-> Some(<<"s">>)]}
\* item lists: every mix up to MaxMixed items, longer lists of one item repeated
ItemLists ==
  UNION {[1..n -> Items] : n \in 0..MaxMixed}
    \cup {[i \in 1..n |-> it] : n \in 0..MaxItems, it \in Items}

\* a body either deserializes to GoogleSearchResponse or does not
SearchBodies ==
  {[parses |-> FALSE, items |-> None], [parses |-> TRUE, items |-> None]}
    \cup {[parses |-> TRUE, items |-> Some(l)] : l \in ItemLists}
NoBody == [parses |-> FALSE, items |-> None]
\* what send() can yield for the search request
SearchReplies ==
  {[kind |-> k, status |-> 0, body |-> NoBody] : k \in {"error", "timeout"}}
    \cup {[kind |-> "response", status |-> 200, body |-> b] : b \in SearchBodies}
    \cup {[kind |-> "response", status |-> 500, body |-> b] :
            b \in {NoBody} \cup {[parses |-> TRUE, items |-> Some(<<it>>)] : it \in Items}}

\* num=5 of the search URL
SearchNum == 5

\* texts a backend generates
Texts == {<<"r">>}
\* a body is JSON or not; "response" is the string field of that name, if any
OllamaBodies ==
  {[parses |-> FALSE, response |-> None], [parses |-> TRUE, response |-> None]}
    \cup {[parses |-> TRUE, response |-> Some(t)] : t \in Texts}
OllamaReplies ==
  {[kind |-> k, status |-> 0, body |-> [parses |-> FALSE, response |-> None]] :
      k \in {"error", "timeout"}}
    \cup {[kind |-> "response", status |-> st, body |-> b] :
            st \in Statuses, b \in OllamaBodies}

Part(t) == [text |-> t]
Candidate(ps) == [parts |-> ps]
\* a body is JSON or not; "candidates" is the array of that name (empty if absent)
GeminiBodies ==
  {[parses |-> FALSE, candidates |-> <<>>],
   [parses |-> TRUE, candidates |-> <<>>],
   [parses |-> TRUE, candidates |-> <<Candidate(<<>>)>>],
   [parses |-> TRUE, candidates |-> <<Candidate(<<Part(None)>>)>>],
   [parses |-> TRUE, candidates |->
      <<Candidate(<<Part(Some(<<"r">>)), Part(Some(<<"q">>))>>),
        Candidate(<<Part(Some(<<"q">>))>>)>>]}
    \cup {[parses |-> TRUE, candidates |-> <<Candidate(<<Part(Some(t))>>)>>] :
            t \in Texts}
GeminiReplies ==
  {[kind |-> k, status |-> 0, body |-> [parses |-> FALSE, candidates |-> <<>>]] :
      k \in {"error", "timeout"}}
    \cup {[kind |-> "response", status |-> st, body |-> b] :
            st \in Statuses, b \in GeminiBodies}

----------------------------------------------------------------------------
(* perform_grounding *)

\* perform_grounding looking up the API key only
GroundingConfigKeyOnly(e) ==
  LET api_key == EnvVar(e, "GOOGLE_API_KEY", "GOOGLE_API_KEY not set")
  IN  IF ~api_key.ok THEN api_key ELSE Ok(<<api_key.val, "">>)

\* the two env::var lookups that precede the request
GroundingConfig(e) ==
  LET api_key == EnvVar(e, "GOOGLE_API_KEY", "GOOGLE_API_KEY not set")
      search_cx == EnvVar(e, "GOOGLE_SEARCH_CX", "GOOGLE_SEARCH_CX not set")
  IN  IF ~api_key.ok THEN api_key
      ELSE IF ~search_cx.ok THEN search_cx
      ELSE Ok(<<api_key.val, search_cx.val>>)

\* GoogleSearchItem -> SearchResult
ToSearchResult(item) ==
  [title |-> item.title, link |-> item.link,
   snippet |-> UnwrapOr(item.snippet, EmptyStr)]

\* perform_grounding without the status check of lines 66-68
perform_groundingAnyStatus(e, reply) ==
  IF ~GroundingConfig(e).ok THEN Err(GroundingConfig(e).err)
  ELSE IF reply.kind # "response" THEN Err("Failed to fetch search results")
  ELSE LET items == UnwrapOr(reply.body.items, <<>>)
       IN  Ok([i \in 1..Len(items) |-> ToSearchResult(items[i])])

\* the Result perform_grounding returns once send() has yielded reply
perform_grounding(e, reply) ==
  IF ~GroundingConfig(e).ok THEN Err(GroundingConfig(e).err)
  ELSE IF reply.kind # "response" THEN Err("Failed to fetch search results")
  ELSE IF ~IsSuccess(reply.status) THEN Ok(<<>>)
  ELSE LET search_response ==
             IF reply.body.parses THEN reply.body ELSE [parses |-> TRUE, items |-> None]
           items == UnwrapOr(search_response.items, <<>>)
       IN  Ok([i \in 1..Len(items) |-> ToSearchResult(items[i])])

\* the context with the lines formatted as "{}{}"
BuildContextBare(srcs) ==
  Join([i \in 1..Len(srcs) |-> srcs[i].title \o srcs[i].snippet], <<"\n">>)

\* the context string the handler builds from the sources
BuildContext(srcs) ==
  Join([i \in 1..Len(srcs) |->
          <<"-", " ">> \o srcs[i].title \o <<":", " ">> \o srcs[i].snippet],
       <<"\n">>)

----------------------------------------------------------------------------
(* call_ollama and call_gemini *)

OllamaPrompt(prompt, ctx) == <<"Context:\n">> \o ctx \o <<"\n\nTask:\n">> \o prompt

\* call_ollama failing when the body has no "response" string
call_ollamaStrict(e, reply) ==
  LET tunnel_url == EnvVar(e, "CLOUDFLARE_TUNNEL_URL", "CLOUDFLARE_TUNNEL_URL not set")
  IN  IF ~tunnel_url.ok THEN Err(tunnel_url.err)
      ELSE IF reply.kind # "response" THEN Err("Failed to call Ollama")
      ELSE IF ~reply.body.parses THEN Err("json")
      ELSE IF reply.body.response = None THEN Err("no response field")
      ELSE Ok(Unwrap(reply.body.response))

\* the Result call_ollama returns once send() has yielded reply
call_ollama(e, reply) ==
  LET tunnel_url == EnvVar(e, "CLOUDFLARE_TUNNEL_URL", "CLOUDFLARE_TUNNEL_URL not set")
  IN  IF ~tunnel_url.ok THEN Err(tunnel_url.err)
      ELSE IF reply.kind # "response" THEN Err("Failed to call Ollama")
      ELSE IF ~reply.body.parses THEN Err("json")
      ELSE Ok(UnwrapOr(reply.body.response, EmptyStr))

GeminiPrompt(prompt, ctx) ==
  <<"Context from web search:\n">> \o ctx \o <<"\n\nUser request:\n">> \o prompt

NoResponseGenerated == <<"No response generated">>

\* Value::get(0) on an array
Get0(arr) == IF Len(arr) >= 1 THEN Some(arr[1]) ELSE None

\* the Result call_gemini returns once send() has yielded reply
call_gemini(e, reply) ==
  LET api_key == EnvVar(e, "GOOGLE_API_KEY", "GOOGLE_API_KEY not set")
  IN  IF ~api_key.ok THEN Err(api_key.err)
      ELSE IF reply.kind # "response" THEN Err("Failed to call Gemini")
      ELSE IF ~reply.body.parses THEN Err("json")
      ELSE LET c == Get0(reply.body.candidates)
               p == IF IsSome(c) THEN Get0(Unwrap(c).parts) ELSE None
               text == IF IsSome(p) THEN Unwrap(p).text ELSE None
           IN  Ok(UnwrapOr(text, NoResponseGenerated))

----------------------------------------------------------------------------
(* validate_api_key *)

\* validate_api_key with unwrap_or(true) for a missing header
validate_api_keyOpen(e, r) ==
  LET expected_key == UnwrapOr(e.INTERNAL_AUTH_KEY, EmptyStr)
      value == HeaderGet(r.x_api_key)
      header == IF IsSome(value) THEN ToStr(Unwrap(value)) ELSE None
  IN  IF expected_key = EmptyStr THEN TRUE
      ELSE IF IsSome(header) THEN Unwrap(header) = expected_key
      ELSE TRUE

validate_api_key(e, r) ==
  LET expected_key == UnwrapOr(e.INTERNAL_AUTH_KEY, EmptyStr)
      value == HeaderGet(r.x_api_key)
      header == IF IsSome(value) THEN ToStr(Unwrap(value)) ELSE None
  IN  IF expected_key = EmptyStr THEN TRUE
      ELSE IF IsSome(header) THEN Unwrap(header) = expected_key
      ELSE FALSE

NoReply == [kind |-> "none"]

\* an OutputPayload whose success follows the text
OutputPayloadStrict(response, srcs, model_used, ctx) ==
  [success |-> response # EmptyStr,
   response |-> response,
   sources |-> srcs,
   model_used |-> model_used,
   grounding_performed |-> ctx # EmptyStr]

\* the OutputPayload the handler builds
OutputPayload(response, srcs, model_used, ctx) ==
  [success |-> TRUE,
   response |-> response,
   sources |-> srcs,
   model_used |-> model_used,
   grounding_performed |-> ctx # EmptyStr]

\* the code branch labelled with the general model
OllamaModelWrong == "gemini-1.5-flash"
OllamaModel == "ollama/qwen2.5-coder"
GeminiFallbackModel == "gemini-1.5-flash (fallback)"
GeminiModel == "gemini-1.5-flash"

\* the fallback labelled like the direct call
GeminiLabelDirect(at) == GeminiModel

\* the model_used string of the gemini call the handler is at
GeminiLabel(at) == IF at = "fallback" THEN GeminiFallbackModel ELSE GeminiModel

\* one entry of the log of calls the handler makes: the function, its arguments
\* and the request it put on the network (None if it returned before sending)
Call(fn, prompt, ctx, request) ==
  [fn |-> fn, prompt |-> prompt, context |-> ctx, request |-> request]

\* the requests in flight once the one named has completed
Completed(flying, name) == SelectSeq(flying, LAMBDA c : c # name)

Init ==
  /\ pc = "start"
  /\ env \in Envs
  /\ req \in Requests
  /\ input = None
  /\ searchReply = None
  /\ groundingResult = None
  /\ sources = <<>>
  /\ context = EmptyStr
  /\ ollamaReply = None
  /\ ollamaResult = None
  /\ geminiReply = None
  /\ geminiResult = None
  /\ calls = <<>>
  /\ inflight = <<>>
  /\ output = None
  /\ httpStatus = None
  /\ httpBody = "none"

\* handler.rs 181-188: CORS preflight
Preflight ==
  /\ pc = "start"
  /\ req.method = "OPTIONS"
  /\ httpStatus' = Some(200)
  /\ httpBody' = "empty"
  /\ pc' = "done"
  /\ UNCHANGED <<env, req, input, searchReply, groundingResult, sources, context,
                 ollamaReply, ollamaResult, geminiReply, geminiResult, calls,
                 inflight, output>>

\* the API key checked before the method
UnauthorizedFirst ==
  /\ pc = "start"
  /\ ~validate_api_key(env, req)
  /\ httpStatus' = Some(401)
  /\ httpBody' = "Invalid API key"
  /\ pc' = "done"
  /\ UNCHANGED <<env, req, input, searchReply, groundingResult, sources, context,
                 ollamaReply, ollamaResult, geminiReply, geminiResult, calls,
                 inflight, output>>

\* handler.rs 191-196
Unauthorized ==
  /\ pc = "start"
  /\ req.method # "OPTIONS"
  /\ ~validate_api_key(env, req)
  /\ httpStatus' = Some(401)
  /\ httpBody' = "Invalid API key"
  /\ pc' = "done"
  /\ UNCHANGED <<env, req, input, searchReply, groundingResult, sources, context,
                 ollamaReply, ollamaResult, geminiReply, geminiResult, calls,
                 inflight, output>>

\* handler.rs 199-214, the Err arm
BadRequest ==
  /\ pc = "start"
  /\ req.method # "OPTIONS"
  /\ validate_api_key(env, req)
  /\ ~req.body.valid
  /\ req' = Consumed
  /\ httpStatus' = Some(400)
  /\ httpBody' = "Invalid JSON"
  /\ pc' = "done"
  /\ UNCHANGED <<env, input, searchReply, groundingResult, sources, context,
                 ollamaReply, ollamaResult, geminiReply, geminiResult, calls,
                 inflight, output>>

\* handler.rs 199-214, the Ok arm
ParseRequest ==
  /\ pc = "start"
  /\ req.method # "OPTIONS"
  /\ validate_api_key(env, req)
  /\ req.body.valid
  /\ input' = Some([prompt |-> req.body.prompt])
  /\ req' = Consumed
  /\ pc' = "grounding"
  /\ UNCHANGED <<env, searchReply, groundingResult, sources, context,
                 ollamaReply, ollamaResult, geminiReply, geminiResult, calls,
                 inflight, output, httpStatus, httpBody>>

\* handler.rs 217-222 with perform_grounding failing at 48-49
GroundingConfigMissing ==
  /\ pc = "grounding"
  /\ ~GroundingConfig(env).ok
  /\ groundingResult' = Some(perform_grounding(env, NoReply))
  /\ sources' = UnwrapOrDefault(perform_grounding(env, NoReply))
  /\ context' = BuildContext(sources')
  /\ calls' = Append(calls, Call("perform_grounding", Unwrap(input).prompt,
                                 EmptyStr, None))
  /\ pc' = "route"
  /\ UNCHANGED <<env, req, input, searchReply, ollamaReply, ollamaResult,
                 geminiReply, geminiResult, inflight, output, httpStatus,
                 httpBody>>

\* perform_grounding 51-63: the request is sent
GroundingSend ==
  /\ pc = "grounding"
  /\ GroundingConfig(env).ok
  /\ calls' = Append(calls, Call("perform_grounding", Unwrap(input).prompt,
                                 EmptyStr, Some(<<"num", SearchNum>>)))
  /\ inflight' = Append(inflight, "search")
  /\ pc' = "await_search"
  /\ UNCHANGED <<env, req, input, searchReply, groundingResult, sources, context,
                 ollamaReply, ollamaResult, geminiReply, geminiResult, output,
                 httpStatus, httpBody>>

\* perform_grounding 64-86 and handler.rs 217-222
GroundingReply(reply) ==
  /\ pc = "await_search"
  /\ searchReply' = Some(reply)
  /\ groundingResult' = Some(perform_grounding(env, reply))
  /\ sources' = UnwrapOrDefault(perform_grounding(env, reply))
  /\ context' = BuildContext(sources')
  /\ inflight' = Completed(inflight, "search")
  /\ pc' = "route"
  /\ UNCHANGED <<env, req, input, ollamaReply, ollamaResult, geminiReply,
                 geminiResult, calls, output, httpStatus, httpBody>>

\* a handler that sends every prompt to the code branch
AtOllamaAlways == pc = "route"

\* a handler that starts the code backend without awaiting the search
AtOllamaEarly ==
  pc \in {"route", "await_search"} /\ is_code_prompt(Unwrap(input).prompt)

\* handler.rs 225: the branch the handler takes
AtOllama == pc = "route" /\ is_code_prompt(Unwrap(input).prompt)
\* a handler that tries call_gemini again after the fallback has failed
GeminiAtRetry ==
  IF pc = "fallback" THEN "fallback"
  ELSE IF /\ pc = "done" /\ output # None /\ ollamaResult # None
          /\ geminiResult # None /\ ~Unwrap(geminiResult).ok /\ Len(calls) < 4
    THEN "fallback"
  ELSE IF pc = "route" /\ ~is_code_prompt(Unwrap(input).prompt) THEN "direct"
  ELSE "no"

\* a handler without the fallback arm
GeminiAtDirectOnly ==
  IF pc = "route" /\ ~is_code_prompt(Unwrap(input).prompt) THEN "direct" ELSE "no"

\* handler.rs 231 and 237: the two places that call call_gemini
GeminiAt ==
  IF pc = "fallback" THEN "fallback"
  ELSE IF pc = "route" /\ ~is_code_prompt(Unwrap(input).prompt) THEN "direct"
  ELSE "no"

\* a response whose model_used is not fixed by the branch taken
RespondEither(response, model_used) ==
  /\ \E m \in {model_used, GeminiModel} :
       output' = Some(OutputPayload(response, sources, m, context))
  /\ httpStatus' = Some(200)
  /\ httpBody' = "output"
  /\ pc' = "done"

\* handler.rs 242-254: the response is built and returned
Respond(response, model_used) ==
  /\ output' = Some(OutputPayload(response, sources, model_used, context))
  /\ httpStatus' = Some(200)
  /\ httpBody' = "output"
  /\ pc' = "done"

\* handler.rs 227 with call_ollama failing at 91
OllamaConfigMissing ==
  /\ AtOllama
  /\ ~IsSome(env.CLOUDFLARE_TUNNEL_URL)
  /\ ollamaResult' = Some(call_ollama(env, NoReply))
  /\ calls' = Append(calls, Call("call_ollama", Unwrap(input).prompt, context, None))
  /\ pc' = "fallback"
  /\ UNCHANGED <<env, req, input, searchReply, groundingResult, sources, context,
                 ollamaReply, geminiReply, geminiResult, inflight, output,
                 httpStatus, httpBody>>

\* call_ollama 93-103: the request is sent
OllamaSend ==
  /\ AtOllama
  /\ IsSome(env.CLOUDFLARE_TUNNEL_URL)
  /\ calls' = Append(calls, Call("call_ollama", Unwrap(input).prompt, context,
                                 Some(OllamaPrompt(Unwrap(input).prompt, context))))
  /\ inflight' = Append(inflight, "ollama")
  /\ pc' = "await_ollama"
  /\ UNCHANGED <<env, req, input, searchReply, groundingResult, sources, context,
                 ollamaReply, ollamaResult, geminiReply, geminiResult, output,
                 httpStatus, httpBody>>

\* call_ollama 104-107 and handler.rs 227-229
OllamaReply(reply) ==
  /\ pc = "await_ollama"
  /\ ollamaReply' = Some(reply)
  /\ ollamaResult' = Some(call_ollama(env, reply))
  /\ inflight' = Completed(inflight, "ollama")
  /\ IF call_ollama(env, reply).ok
       THEN Respond(call_ollama(env, reply).val, OllamaModel)
       ELSE /\ pc' = "fallback"
            /\ UNCHANGED <<output, httpStatus, httpBody>>
  /\ UNCHANGED <<env, req, input, searchReply, groundingResult, sources, context,
                 geminiReply, geminiResult, calls>>

\* handler.rs 231 / 237 with call_gemini failing at 112
GeminiConfigMissing ==
  /\ GeminiAt # "no"
  /\ ~IsSome(env.GOOGLE_API_KEY)
  /\ geminiResult' = Some(call_gemini(env, NoReply))
  /\ calls' = Append(calls, Call("call_gemini", Unwrap(input).prompt, context, None))
  /\ Respond(UnwrapOrDefault(call_gemini(env, NoReply)), GeminiLabel(GeminiAt))
  /\ UNCHANGED <<env, req, input, searchReply, groundingResult, sources, context,
                 ollamaReply, ollamaResult, geminiReply, inflight>>

\* call_gemini 114-133: the request is sent
GeminiSend ==
  /\ GeminiAt # "no"
  /\ IsSome(env.GOOGLE_API_KEY)
  /\ calls' = Append(calls, Call("call_gemini", Unwrap(input).prompt, context,
                                 Some(GeminiPrompt(Unwrap(input).prompt, context))))
  /\ inflight' = Append(inflight, "gemini")
  /\ pc' = IF GeminiAt = "fallback" THEN "await_gemini_fallback" ELSE "await_gemini"
  /\ UNCHANGED <<env, req, input, searchReply, groundingResult, sources, context,
                 ollamaReply, ollamaResult, geminiReply, geminiResult, output,
                 httpStatus, httpBody>>

\* call_gemini 134-144 and handler.rs 231-232 / 237-238
GeminiReply(reply) ==
  /\ pc \in {"await_gemini", "await_gemini_fallback"}
  /\ geminiReply' = Some(reply)
  /\ geminiResult' = Some(call_gemini(env, reply))
  /\ inflight' = Completed(inflight, "gemini")
  /\ Respond(UnwrapOrDefault(call_gemini(env, reply)),
             GeminiLabel(IF pc = "await_gemini_fallback" THEN "fallback" ELSE "direct"))
  /\ UNCHANGED <<env, req, input, searchReply, groundingResult, sources, context,
                 ollamaReply, ollamaResult, calls>>

Next ==
  \/ Preflight
  \/ Unauthorized
  \/ BadRequest
  \/ ParseRequest
  \/ GroundingConfigMissing
  \/ GroundingSend
  \/ \E reply \in SearchReplies : GroundingReply(reply)
  \/ OllamaConfigMissing
  \/ OllamaSend
  \/ \E reply \in OllamaReplies : OllamaReply(reply)
  \/ GeminiConfigMissing
  \/ GeminiSend
  \/ \E reply \in GeminiReplies : GeminiReply(reply)

Spec == Init /\ [][Next]_vars

\* the runtime keeps polling the handler, and every send() returns: with a
\* response, with an error, or at its timeout (10 s, 120 s, 60 s)
FairSpec == Spec /\ WF_vars(Next)

----------------------------------------------------------------------------
(* The handler on a wider set of prompts, in environments without         *)
(* GOOGLE_API_KEY: perform_grounding and call_gemini return before they   *)
(* send, call_ollama sends when the tunnel URL is set.                    *)

ClassifyAlphabet == {"f", "i", "x", "F", "I", "X", "a", "p"}
ClassifyPrompts == StringsUpTo(ClassifyAlphabet, MaxClassifyLen)
ClassifyEnvs == {e \in Envs : /\ e.GOOGLE_API_KEY = None
                              /\ e.GOOGLE_SEARCH_CX = None
                              /\ e.INTERNAL_AUTH_KEY = None}

InitClassify ==
  /\ pc = "start"
  /\ env \in ClassifyEnvs
  /\ req \in {[method |-> "POST", x_api_key |-> <<>>,
               body |-> [valid |-> TRUE, prompt |-> p]] : p \in ClassifyPrompts}
  /\ input = None
  /\ searchReply = None
  /\ groundingResult = None
  /\ sources = <<>>
  /\ context = EmptyStr
  /\ ollamaReply = None
  /\ ollamaResult = None
  /\ geminiReply = None
  /\ geminiResult = None
  /\ calls = <<>>
  /\ inflight = <<>>
  /\ output = None
  /\ httpStatus = None
  /\ httpBody = "none"

NextClassify ==
  \/ ParseRequest
  \/ GroundingConfigMissing
  \/ OllamaConfigMissing
  \/ OllamaSend
  \/ \E reply \in OllamaReplies : OllamaReply(reply)
  \/ GeminiConfigMissing

SpecClassify == InitClassify /\ [][NextClassify]_vars

----------------------------------------------------------------------------
(* Properties *)

\* the calls of one function, in the order the handler made them
CallsOf(fn) == SelectSeq(calls, LAMBDA c : c.fn = fn)
\* the backend invocations, in order
BackendCalls == SelectSeq(calls, LAMBDA c : c.fn \in {"call_ollama", "call_gemini"})
\* the handler has returned the JSON response of lines 242-254
Responded == pc = "done" /\ output # None
OllamaFailed == ollamaResult # None /\ ~Unwrap(ollamaResult).ok
GeminiFailed == geminiResult # None /\ ~Unwrap(geminiResult).ok
\* a reply that is no successful, parseable HTTP response
Fault(reply) ==
  reply.kind # "response" \/ ~IsSuccess(reply.status) \/ ~reply.body.parses

\* C1: on the Code branch, when call_ollama fails, call_gemini is called exactly
\* once, after it, with the same (prompt, context) pair, and the response names
\* the fallback model, which is not the name of the direct gemini call.
C1_FallbackAfterCodeFailure ==
  /\ (pc = "fallback") => (OllamaFailed /\ ENABLED (GeminiConfigMissing \/ GeminiSend))
  /\ (pc = "done" /\ OllamaFailed) =>
       /\ is_code_prompt(Unwrap(input).prompt)
       /\ Len(CallsOf("call_ollama")) = 1
       /\ Len(CallsOf("call_gemini")) = 1
       /\ \E i, j \in 1..Len(calls) :
            /\ i < j
            /\ calls[i].fn = "call_ollama"
            /\ calls[j].fn = "call_gemini"
            /\ calls[j].prompt = calls[i].prompt
            /\ calls[j].context = calls[i].context
            /\ calls[i].prompt = Unwrap(input).prompt
            /\ calls[i].context = context
       /\ Responded
       /\ Unwrap(output).model_used = GeminiFallbackModel
       /\ Unwrap(output).model_used # GeminiModel

C1_Witness ==
  /\ Responded
  /\ ollamaReply # None /\ Unwrap(ollamaReply).kind = "timeout"
  /\ geminiResult # None /\ Unwrap(geminiResult).ok
  /\ Unwrap(output).response = <<"r">>
  /\ context # EmptyStr

\* C2: call_ollama and call_gemini return Err, never a text, when the
\* configuration value is missing, when send() errors or times out, when the
\* HTTP status is not a success, and when the body does not parse.
C2_InvokersFailOnEveryFault ==
  /\ (ollamaResult # None /\ ollamaReply # None /\ Fault(Unwrap(ollamaReply)))
       => ~Unwrap(ollamaResult).ok
  /\ (ollamaResult # None /\ ~IsSome(env.CLOUDFLARE_TUNNEL_URL))
       => ~Unwrap(ollamaResult).ok
  /\ (geminiResult # None /\ geminiReply # None /\ Fault(Unwrap(geminiReply)))
       => ~Unwrap(geminiResult).ok
  /\ (geminiResult # None /\ ~IsSome(env.GOOGLE_API_KEY))
       => ~Unwrap(geminiResult).ok

\* C3: in every response grounding_performed is true exactly when the context
\* string built from the sources is non-empty, and false exactly when the
\* sources are empty, also for sources whose title and snippet are empty.
C3_GroundingPerformedIffContext ==
  Responded =>
    /\ Unwrap(output).grounding_performed <=> (context # EmptyStr)
    /\ context = BuildContext(Unwrap(output).sources)
    /\ (~Unwrap(output).grounding_performed) <=> (Unwrap(output).sources = <<>>)

C3_Witness ==
  /\ Responded
  /\ Len(Unwrap(output).sources) = 1
  /\ Unwrap(output).sources[1].title = EmptyStr
  /\ Unwrap(output).sources[1].snippet = EmptyStr
  /\ Unwrap(output).grounding_performed

\* C4: perform_grounding returns Ok(empty), never Err, when the provider is
\* unreachable, times out, answers a non-2xx status or a malformed body.
C4_RetrieveNeverFails ==
  (groundingResult # None /\ searchReply # None /\ Fault(Unwrap(searchReply)))
    => Unwrap(groundingResult) = Ok(<<>>)

\* grounding failed: configuration missing, or a faulty reply
GroundingFailed ==
  /\ groundingResult # None
  /\ \/ ~GroundingConfig(env).ok
     \/ searchReply # None /\ Fault(Unwrap(searchReply))

\* C5: a grounding failure of any kind does not abort the pipeline: the handler
\* goes on to a backend call, every backend call gets the empty context, and
\* the response has no sources and grounding_performed = false.
C5_GroundingFailureAbsorbed ==
  GroundingFailed =>
    /\ sources = <<>>
    /\ context = EmptyStr
    /\ \A i \in 1..Len(BackendCalls) : BackendCalls[i].context = EmptyStr
    /\ (pc # "done") => ENABLED Next
    /\ (pc = "done") =>
         /\ Responded
         /\ Len(BackendCalls) >= 1
         /\ Unwrap(output).sources = <<>>
         /\ Unwrap(output).grounding_performed = FALSE

C5_Witness ==
  /\ Responded
  /\ searchReply # None
  /\ Unwrap(searchReply).kind = "response"
  /\ Unwrap(searchReply).status = 500
  /\ Unwrap(searchReply).body.parses
  /\ Len(BackendCalls) = 2

\* C6: every run that builds the response reports success = true, whatever the
\* grounding, the classification and the backends did; a run that passed the
\* gate never ends without it.
C6_AlwaysSuccess ==
  /\ (output # None) => Unwrap(output).success = TRUE
  /\ (pc = "done" /\ input # None) => output # None

C6_Witness ==
  /\ Responded
  /\ OllamaFailed
  /\ GeminiFailed
  /\ Unwrap(output).response = EmptyStr
  /\ Unwrap(output).success

\* C7: a General prompt calls call_gemini once and directly, never call_ollama,
\* and nothing after a failure; the response text is the text call_gemini
\* returned, or empty when it failed, and model_used is the direct name.
C7_GeneralDirect ==
  (input # None /\ ~is_code_prompt(Unwrap(input).prompt)) =>
    /\ Len(CallsOf("call_ollama")) = 0
    /\ ollamaResult = None
    /\ Len(CallsOf("call_gemini")) <= 1
    /\ (pc = "done") =>
         /\ Responded
         /\ Len(CallsOf("call_gemini")) = 1
         /\ geminiResult # None
         /\ Unwrap(geminiResult).ok =>
              Unwrap(output).response = Unwrap(geminiResult).val
         /\ ~Unwrap(geminiResult).ok => Unwrap(output).response = EmptyStr
         /\ Unwrap(output).model_used = GeminiModel

C7_Witness ==
  /\ Responded
  /\ ~is_code_prompt(Unwrap(input).prompt)
  /\ Unwrap(input).prompt # EmptyStr
  /\ geminiReply # None
  /\ GeminiFailed
  /\ Unwrap(output).response = EmptyStr
  /\ Unwrap(output).model_used = GeminiModel

\* C8: Code prompt, call_ollama fails and the fallback call_gemini fails: the
\* response has empty text, the fallback model name and success = true, and
\* there are two backend calls, no third.
C8_BothFail ==
  (pc = "done" /\ OllamaFailed /\ GeminiFailed) =>
    /\ Responded
    /\ Unwrap(output).response = EmptyStr
    /\ Unwrap(output).model_used = GeminiFallbackModel
    /\ Unwrap(output).success = TRUE
    /\ Len(BackendCalls) = 2
    /\ ~ENABLED Next

C8_Witness ==
  /\ Responded
  /\ ollamaReply # None /\ OllamaFailed
  /\ geminiReply # None /\ GeminiFailed
  /\ Unwrap(geminiReply).kind = "error"
  /\ Unwrap(output).model_used = GeminiFallbackModel

\* C9: the response names one backend: the code model only if call_ollama
\* succeeded and gave the text, a gemini name only if the text (or the empty
\* text) is what call_gemini gave; at most one invocation succeeded.
C9_OneBackendRecorded ==
  Responded =>
    /\ Unwrap(output).model_used \in {OllamaModel, GeminiModel, GeminiFallbackModel}
    /\ (Unwrap(output).model_used = OllamaModel) =>
         /\ ollamaResult # None /\ Unwrap(ollamaResult).ok
         /\ Unwrap(output).response = Unwrap(ollamaResult).val
         /\ geminiResult = None
    /\ (Unwrap(output).model_used \in {GeminiModel, GeminiFallbackModel}) =>
         /\ geminiResult # None
         /\ Unwrap(output).response = UnwrapOrDefault(Unwrap(geminiResult))
         /\ ollamaResult = None \/ ~Unwrap(ollamaResult).ok
    /\ ~(/\ ollamaResult # None /\ Unwrap(ollamaResult).ok
         /\ geminiResult # None /\ Unwrap(geminiResult).ok)

C9_Witness ==
  /\ Responded
  /\ Len(BackendCalls) = 2
  /\ geminiResult # None /\ Unwrap(geminiResult).ok
  /\ Unwrap(output).model_used = GeminiFallbackModel
  /\ Unwrap(output).response = NoResponseGenerated

\* C10: perform_grounding returns at most 5 documents for every body the
\* provider can send, also one that lists more than 5 items.
C10_AtMostFiveDocuments ==
  (groundingResult # None) =>
    Len(UnwrapOrDefault(Unwrap(groundingResult))) <= SearchNum

\* the environment variables a function reads before it sends its request
Needs(fn) ==
  CASE fn = "perform_grounding" -> {"GOOGLE_API_KEY", "GOOGLE_SEARCH_CX"}
    [] fn = "call_ollama" -> {"CLOUDFLARE_TUNNEL_URL"}
    [] fn = "call_gemini" -> {"GOOGLE_API_KEY"}
MissingFor(fn) == \E n \in Needs(fn) : env[n] = None
\* the Result the handler got from a function, None if it has none yet
ResultOf(fn) ==
  CASE fn = "perform_grounding" -> groundingResult
    [] fn = "call_ollama" -> ollamaResult
    [] fn = "call_gemini" -> geminiResult
NotSetErrors ==
  {"GOOGLE_API_KEY not set", "GOOGLE_SEARCH_CX not set", "CLOUDFLARE_TUNNEL_URL not set"}

\* C11: whatever configuration values are missing, a request that passed the
\* gate ends with the 200 response and never stops before: a call sends no
\* request and fails with "... not set" exactly when a value it needs is
\* missing, and the other calls send their request as usual.
C11_MissingConfigFailsOnlyItsCall ==
  (input # None) =>
    /\ (pc # "done") => ENABLED Next
    /\ (pc = "done") => (Responded /\ httpStatus = Some(200)
                          /\ Len(CallsOf("perform_grounding")) = 1
                          /\ Len(BackendCalls) >= 1)
    /\ \A i \in 1..Len(calls) :
         (calls[i].request = None) <=> MissingFor(calls[i].fn)
    /\ \A fn \in {"perform_grounding", "call_ollama", "call_gemini"} :
         (ResultOf(fn) # None) =>
           /\ MissingFor(fn) => ~Unwrap(ResultOf(fn)).ok
           /\ (Unwrap(ResultOf(fn)).err \in NotSetErrors) <=> MissingFor(fn)

C11_Witness ==
  /\ Responded
  /\ env.GOOGLE_SEARCH_CX = None
  /\ env.CLOUDFLARE_TUNNEL_URL = None
  /\ env.GOOGLE_API_KEY # None
  /\ Len(calls) = 3
  /\ calls[1].request = None
  /\ calls[2].request = None
  /\ calls[3].request # None
  /\ geminiResult # None /\ Unwrap(geminiResult).ok

\* letter c of a text is letter k of a keyword, whatever the case of c
SameLetter(c, k) == c = k \/ (c \in DOMAIN LowerOf /\ LowerOf[c] = k)
\* keyword kw stands in the text at some position, ignoring the text's case
OccursIgnoringCase(text, kw) ==
  \E i \in 1..Len(text) :
    /\ i + Len(kw) - 1 <= Len(text)
    /\ \A j \in 1..Len(kw) : SameLetter(text[i + j - 1], kw[j])
HasKeyword(text) ==
  \E k \in 1..Len(code_keywords) : OccursIgnoringCase(text, code_keywords[k])
\* the handler is past the branch of line 225
Routed == input # None /\ pc \notin {"start", "grounding", "await_search", "route"}

\* C12: is_code_prompt is true exactly for the texts in which a keyword occurs
\* at some position, whatever the case of the text's letters, and the handler
\* calls call_ollama (the Code branch) exactly for those texts.
C12_ClassifyByKeyword ==
  (input # None) =>
    /\ is_code_prompt(Unwrap(input).prompt) <=> HasKeyword(Unwrap(input).prompt)
    /\ Routed =>
         /\ (Len(CallsOf("call_ollama")) = 1) <=> HasKeyword(Unwrap(input).prompt)
         /\ (Len(CallsOf("call_ollama")) = 0 /\ Len(CallsOf("call_gemini")) = 1)
              <=> ~HasKeyword(Unwrap(input).prompt)

C12_Witness ==
  /\ Responded
  /\ Unwrap(input).prompt = <<"p", "F", "I", "x">>
  /\ Len(CallsOf("call_ollama")) = 1
  /\ Unwrap(output).model_used = OllamaModel

\* the reply a function got, NoReply if it returned before sending
ReplyOr(r) == IF r = None THEN NoReply ELSE Unwrap(r)

\* the response as a function of the prompt, the environment and the replies
ExpectedOutput(e, prompt, sr, olr, gr) ==
  LET srcs == UnwrapOrDefault(perform_grounding(e, ReplyOr(sr)))
      ctx == BuildContext(srcs)
      o == call_ollama(e, ReplyOr(olr))
      g == call_gemini(e, ReplyOr(gr))
      answer ==
        IF is_code_prompt(prompt)
          THEN IF o.ok THEN <<o.val, "ollama/qwen2.5-coder">>
               ELSE <<UnwrapOrDefault(g), "gemini-1.5-flash (fallback)">>
          ELSE <<UnwrapOrDefault(g), "gemini-1.5-flash">>
  IN  [success |-> TRUE, response |-> answer[1], sources |-> srcs,
       model_used |-> answer[2], grounding_performed |-> ctx # EmptyStr]

\* the sequence of calls as a function of the same inputs
ExpectedCalls(e, prompt, sr, olr) ==
  LET ctx == BuildContext(UnwrapOrDefault(perform_grounding(e, ReplyOr(sr))))
      search == [fn |-> "perform_grounding", prompt |-> prompt, context |-> EmptyStr,
                 request |-> IF e.GOOGLE_API_KEY # None /\ e.GOOGLE_SEARCH_CX # None
                               THEN Some(<<"num", SearchNum>>) ELSE None]
      ollama == [fn |-> "call_ollama", prompt |-> prompt, context |-> ctx,
                 request |-> IF e.CLOUDFLARE_TUNNEL_URL # None
                               THEN Some(OllamaPrompt(prompt, ctx)) ELSE None]
      gemini == [fn |-> "call_gemini", prompt |-> prompt, context |-> ctx,
                 request |-> IF e.GOOGLE_API_KEY # None
                               THEN Some(GeminiPrompt(prompt, ctx)) ELSE None]
  IN  IF is_code_prompt(prompt)
        THEN IF call_ollama(e, ReplyOr(olr)).ok THEN <<search, ollama>>
             ELSE <<search, ollama, gemini>>
        ELSE <<search, gemini>>

\* C13: the handler is deterministic: the response and the sequence of calls
\* are functions of the request, the configuration and the replies of the
\* retriever and the backends, so two runs that agree on these agree on both.
C13_ResponseIsFunctionOfInputs ==
  Responded =>
    /\ Unwrap(output) = ExpectedOutput(env, Unwrap(input).prompt, searchReply,
                                       ollamaReply, geminiReply)
    /\ calls = ExpectedCalls(env, Unwrap(input).prompt, searchReply, ollamaReply)

C13_Witness ==
  /\ Responded
  /\ Len(calls) = 3
  /\ \A i \in 1..3 : calls[i].request # None
  /\ Len(sources) = 2
  /\ sources[1] # sources[2]
  /\ Unwrap(output).response = <<"r">>

\* the position of the first call of fn in the log, 0 if there is none
IndexOf(fn) ==
  IF \E i \in 1..Len(calls) : calls[i].fn = fn
    THEN CHOOSE i \in 1..Len(calls) :
           calls[i].fn = fn /\ \A j \in 1..(i - 1) : calls[j].fn # fn
    ELSE 0

\* C14: the calls of one request are sequential: perform_grounding has returned
\* before a backend is called, call_ollama has returned Err before the fallback
\* call_gemini is called, and at most one request is in flight at any time,
\* with the handler waiting for it.
C14_CallsAreSequential ==
  /\ Len(inflight) <= 1
  /\ (inflight = <<"search">>) <=> (pc = "await_search")
  /\ (inflight = <<"ollama">>) <=> (pc = "await_ollama")
  /\ (inflight = <<"gemini">>) <=> (pc \in {"await_gemini", "await_gemini_fallback"})
  /\ (Len(BackendCalls) >= 1) =>
       /\ groundingResult # None
       /\ calls[1].fn = "perform_grounding"
       /\ Len(CallsOf("perform_grounding")) = 1
  /\ (IndexOf("call_ollama") > 0 /\ IndexOf("call_gemini") > 0) =>
       /\ IndexOf("call_ollama") < IndexOf("call_gemini")
       /\ OllamaFailed
  /\ (IndexOf("call_ollama") > 0 /\ pc # "await_ollama") => ollamaResult # None
  /\ (IndexOf("call_gemini") > 0 /\ pc \notin {"await_gemini", "await_gemini_fallback"})
       => geminiResult # None

C14_Witness ==
  /\ pc = "await_gemini_fallback"
  /\ inflight = <<"gemini">>
  /\ Len(calls) = 3
  /\ \A i \in 1..3 : calls[i].request # None
  /\ searchReply # None /\ Unwrap(searchReply).kind = "timeout"
  /\ ollamaReply # None /\ Unwrap(ollamaReply).kind = "timeout"

\* a 2xx reply whose body is JSON
GoodReply(r) ==
  r # None /\ Unwrap(r).kind = "response" /\ IsSuccess(Unwrap(r).status)
    /\ Unwrap(r).body.parses
\* a gemini body without candidates[0].content.parts[0].text
UnexpectedShape(body) ==
  \/ body.candidates = <<>>
  \/ body.candidates[1].parts = <<>>
  \/ body.candidates[1].parts[1].text = None

\* C15: only a failed call_ollama leads to the fallback: a successful ollama
\* reply without the "response" field gives the empty text under the ollama
\* name and no call of call_gemini; a successful gemini reply of unexpected
\* shape gives "No response generated", not a failure.
C15_MalformedSuccessIsNoFailure ==
  /\ (Len(CallsOf("call_gemini")) >= 1 /\ Len(CallsOf("call_ollama")) >= 1)
       => OllamaFailed
  /\ (GoodReply(ollamaReply) /\ Unwrap(ollamaReply).body.response = None) =>
       /\ Responded
       /\ Unwrap(output).response = EmptyStr
       /\ Unwrap(output).model_used = OllamaModel
       /\ Len(CallsOf("call_gemini")) = 0
       /\ geminiResult = None
       /\ ~ENABLED Next
  /\ (GoodReply(geminiReply) /\ UnexpectedShape(Unwrap(geminiReply).body)) =>
       /\ Unwrap(geminiResult) = Ok(NoResponseGenerated)
       /\ Responded
       /\ Unwrap(output).response = NoResponseGenerated

C15_Witness ==
  /\ Responded
  /\ GoodReply(ollamaReply)
  /\ Unwrap(ollamaReply).body.response = None
  /\ Unwrap(output).model_used = OllamaModel
  /\ Unwrap(output).response = EmptyStr

\* the calls that put a request on the network
Outbound(fn) == SelectSeq(calls, LAMBDA c : c.fn = fn /\ c.request # None)

\* C16: if every request sent is answered, fails or times out, a request that
\* passed the gate reaches the response, with at most one search request, one
\* ollama request and one gemini request (three in all, none repeated), and
\* two backend calls only for a Code prompt whose call_ollama failed.
C16_TerminatesWithinThreeCalls ==
  /\ [](/\ Len(Outbound("perform_grounding")) <= 1
        /\ Len(Outbound("call_ollama")) <= 1
        /\ Len(Outbound("call_gemini")) <= 1
        /\ Len(CallsOf("perform_grounding")) <= 1
        /\ Len(CallsOf("call_ollama")) <= 1
        /\ Len(CallsOf("call_gemini")) <= 1
        /\ (Len(BackendCalls) = 2) =>
             (is_code_prompt(Unwrap(input).prompt) /\ OllamaFailed))
  /\ (input # None) ~> Responded

C16_Witness ==
  /\ Responded
  /\ Len(Outbound("perform_grounding")) = 1
  /\ Len(Outbound("call_ollama")) = 1
  /\ Len(Outbound("call_gemini")) = 1
  /\ GeminiFailed

\* the handler has answered without entering the pipeline
Rejected == pc = "done" /\ output = None
NoPipeline ==
  /\ input = None /\ calls = <<>> /\ inflight = <<>>
  /\ groundingResult = None /\ ollamaResult = None /\ geminiResult = None

\* C17: a request the gate rejects causes no call: OPTIONS is answered 200 with
\* an empty body whether or not its key is valid, a request that fails the key
\* validation 401, a body that is no InputPayload 400; the pipeline starts
\* only for a non-OPTIONS request that passed validation and parsed.
C17_GateBeforePipeline ==
  /\ [](/\ Rejected => NoPipeline
        /\ (pc = "start") => (NoPipeline /\ ENABLED Next)
        /\ (calls # <<>>) => (input # None /\ req = Consumed))
  /\ [][(pc = "start") =>
          /\ (req.method = "OPTIONS") =>
               (Rejected' /\ httpStatus' = Some(200) /\ httpBody' = "empty")
          /\ (req.method # "OPTIONS" /\ ~validate_api_key(env, req)) =>
               (Rejected' /\ httpStatus' = Some(401))
          /\ (req.method # "OPTIONS" /\ validate_api_key(env, req)
                /\ ~req.body.valid) =>
               (Rejected' /\ httpStatus' = Some(400))
          /\ (req.method # "OPTIONS" /\ validate_api_key(env, req)
                /\ req.body.valid) =>
               (pc' = "grounding" /\ input' = Some([prompt |-> req.body.prompt])
                  /\ calls' = <<>> /\ httpStatus' = None)]_vars

C17_Witness ==
  /\ Rejected
  /\ req.method = "OPTIONS"
  /\ ~validate_api_key(env, req)
  /\ req.body.valid
  /\ httpStatus = Some(200)
  /\ calls = <<>>

\* the configured key is unset or empty
NoAuthConfigured == env.INTERNAL_AUTH_KEY = None \/ env.INTERNAL_AUTH_KEY = Some(EmptyStr)
\* what the handler does with a non-OPTIONS request that validation accepts or not
GateFollows(accepted) ==
  /\ (pc = "start" /\ req.method # "OPTIONS") =>
       /\ accepted => (~ENABLED Unauthorized /\ ENABLED (ParseRequest \/ BadRequest))
       /\ ~accepted => (ENABLED Unauthorized /\ ~ENABLED (ParseRequest \/ BadRequest))
  /\ (httpStatus = Some(401)) => ~accepted

\* C18 as stated: validation accepts every request when the key is unset or
\* empty, and otherwise exactly the requests that carry an x-api-key header
\* whose value equals the key.
C18_AcceptsIffHeaderEqualsKey ==
  LET accepted ==
        \/ NoAuthConfigured
        \/ \E i \in 1..Len(req.x_api_key) :
             Some(req.x_api_key[i]) = env.INTERNAL_AUTH_KEY
  IN  (req # Consumed) =>
        /\ validate_api_key(env, req) <=> accepted
        /\ GateFollows(accepted)

\* C18 amended: with a non-empty key, exactly the requests are accepted whose
\* first x-api-key header value consists of visible ASCII bytes and equals
\* the key.
C18_AcceptsIffFirstAsciiHeaderEqualsKey ==
  LET accepted ==
        \/ NoAuthConfigured
        \/ /\ req.x_api_key # <<>>
           /\ Some(req.x_api_key[1]) = env.INTERNAL_AUTH_KEY
           /\ \A i \in 1..Len(req.x_api_key[1]) :
                req.x_api_key[1][i] \notin NonAsciiBytes
  IN  (req # Consumed) =>
        /\ validate_api_key(env, req) <=> accepted
        /\ GateFollows(accepted)

C18_Witness ==
  /\ Rejected
  /\ httpStatus = Some(401)
  /\ req.method = "POST"
  /\ req.x_api_key = << <<"j">>, <<"k">> >>
  /\ env.INTERNAL_AUTH_KEY = Some(<<"k">>)

====
